---- MODULE Spec2Model ----
(***************************************************************************)
(* Access-control layer of the CRM backend: bearer tokens (src/auth.py),   *)
(* the login handlers (src/routers/auth.py, src/main.py) and the resource  *)
(* handlers (src/routers/users.py, clients.py, prospects.py,               *)
(* content_items.py) over the relational store declared in src/models.py.  *)
(*                                                                         *)
(* One request is one step: the handler runs get_current_user on the       *)
(* bearer token it is given, decides, writes the store inside one          *)
(* commit-or-rollback scope and leaves its answer in resp.                 *)
(***************************************************************************)
EXTENDS Integers, Sequences, FiniteSets, TLC

VARIABLES
    users,          \* rows of table users
    clients,        \* rows of table clients
    prospects,      \* rows of table prospects
    content_items,  \* rows of table content_items
    seq,            \* the serial primary-key sequence of each table
    tokens,         \* bearer tokens the server has issued, with the issuing handler
    now,            \* the server clock, in minutes
    ENV,            \* settings.ENV
    resp            \* the request handled last and the answer it got

vars == <<users, clients, prospects, content_items, seq, tokens, now, ENV, resp>>

store == <<users, clients, prospects, content_items>>

-----------------------------------------------------------------------------
(* Bounds of the model *)

MaxUsers == 3       \* rows the users sequence hands out
MaxClients == 2     \* rows the clients sequence hands out
MaxProspects == 1   \* rows the prospects sequence hands out
MaxItems == 1       \* rows the content_items sequence hands out
MaxTokens == 2      \* tokens issued in one run

-----------------------------------------------------------------------------
(* Values *)

None == "<None>"
NoRow == [id |-> 0]
NoClaim == [id |-> 0, role |-> None, city |-> None]

ACCESS_TOKEN_EXPIRE_MINUTES == 60
SECRET_KEY == "JWT_SECRET_KEY"

\* the instants at which requests arrive: issue time, just before the expiry
\* of a token issued at 0, the expiry itself, and just after it
Instants == {0, ACCESS_TOKEN_EXPIRE_MINUTES - 1, ACCESS_TOKEN_EXPIRE_MINUTES,
             ACCESS_TOKEN_EXPIRE_MINUTES + 1}

Digits == <<"0", "1", "2", "3", "4", "5", "6", "7", "8", "9">>

\* Python's str() of a non-negative int
RECURSIVE str(_)
str(n) == IF n < 10 THEN <<Digits[n + 1]>> ELSE str(n \div 10) \o <<Digits[(n % 10) + 1]>>

DigitValue(c) == (CHOOSE i \in 1..10 : Digits[i] = c) - 1

IsDecimal(s) == Len(s) > 0 /\ \A i \in 1..Len(s) : \E d \in 1..10 : Digits[d] = s[i]

\* Python's int() of a decimal string (the caller checks IsDecimal: ValueError otherwise)
RECURSIVE int(_)
int(s) == IF Len(s) = 1 THEN DigitValue(s[1])
          ELSE 10 * int(SubSeq(s, 1, Len(s) - 1)) + DigitValue(s[Len(s)])

-----------------------------------------------------------------------------
(* Credential hasher: src/auth.py *)

Salts == {"s1"}

\* bcrypt: the hash carries its salt and a digest of salt and password
hash_password(password, salt) == [salt |-> salt, digest |-> <<salt, password>>]

verify_password(plain_password, hashed_password) ==
    hashed_password.digest = <<hashed_password.salt, plain_password>>

-----------------------------------------------------------------------------
(* Token service: src/auth.py *)

\* the HS256 signature of a payload under a key
Sign(payload, key) == [payload |-> payload, key |-> key]

\* create_access_token with the timedelta subtracted from the issue time
create_access_token_ttl_subtracted(data, t) ==
    LET expire == t - ACCESS_TOKEN_EXPIRE_MINUTES
        to_encode == [k \in DOMAIN data \cup {"exp"} |-> IF k = "exp" THEN expire ELSE data[k]]
    IN [payload |-> to_encode, sig |-> Sign(to_encode, SECRET_KEY)]

\* to_encode = data.copy(); to_encode.update({"exp": expire}); jwt.encode(...)
create_access_token(data, t) ==
    LET expire == t + ACCESS_TOKEN_EXPIRE_MINUTES
        to_encode == [k \in DOMAIN data \cup {"exp"} |-> IF k = "exp" THEN expire ELSE data[k]]
    IN [payload |-> to_encode, sig |-> Sign(to_encode, SECRET_KEY)]

Unauthorized(detail) == [status |-> 401, detail |-> detail, claim |-> NoClaim]

\* get_current_user looking the subject up in the users table: no claim for a token
\* whose user is gone or inactive, or whose role or city is no longer the stored one
get_current_user_from_store(token, t) ==
    IF token.sig # Sign(token.payload, SECRET_KEY)
        THEN Unauthorized("Could not validate credentials")
    ELSE IF token.payload.exp < t
        THEN Unauthorized("Token has expired")
    ELSE IF "sub" \notin DOMAIN token.payload \/ token.payload.role = None
        THEN Unauthorized("Could not validate credentials")
    ELSE IF ~IsDecimal(token.payload.sub)
        THEN Unauthorized("Could not validate credentials")
    ELSE IF ~\E u \in users : /\ u.id = int(token.payload.sub) /\ u.is_active
                              /\ u.role = token.payload.role /\ u.city = token.payload.city
        THEN Unauthorized("Could not validate credentials")
    ELSE [status |-> 200, detail |-> "",
          claim |-> [id |-> int(token.payload.sub), role |-> token.payload.role,
                     city |-> token.payload.city]]

\* get_current_user without the signature check (jwt.decode with verify_signature off)
get_current_user_unverified(token, t) ==
    IF token.payload.exp < t
        THEN Unauthorized("Token has expired")
    ELSE IF "sub" \notin DOMAIN token.payload \/ token.payload.role = None
        THEN Unauthorized("Could not validate credentials")
    ELSE IF ~IsDecimal(token.payload.sub)
        THEN Unauthorized("Could not validate credentials")
    ELSE [status |-> 200, detail |-> "",
          claim |-> [id |-> int(token.payload.sub), role |-> token.payload.role,
                     city |-> token.payload.city]]

\* jwt.decode checks the signature, then the exp claim (expired when exp < now);
\* payload.get("sub") and payload.get("role") are None for an absent or null field
get_current_user(token, t) ==
    IF token.sig # Sign(token.payload, SECRET_KEY)
        THEN Unauthorized("Could not validate credentials")
    ELSE IF token.payload.exp < t
        THEN Unauthorized("Token has expired")
    ELSE IF "sub" \notin DOMAIN token.payload \/ token.payload.role = None
        THEN Unauthorized("Could not validate credentials")
    ELSE IF ~IsDecimal(token.payload.sub)
        THEN Unauthorized("Could not validate credentials")
    ELSE [status |-> 200, detail |-> "",
          claim |-> [id |-> int(token.payload.sub), role |-> token.payload.role,
                     city |-> token.payload.city]]

\* get_admin_user without the role test
get_admin_user_anyone(current_user) == [status |-> 200, claim |-> current_user]

\* the claim comes back unchanged, or the request ends with 403
get_admin_user(current_user) ==
    IF current_user.role # "admin"
        THEN [status |-> 403, claim |-> NoClaim]
        ELSE [status |-> 200, claim |-> current_user]

\* What a caller can make of a token the server issued: the token with its role
\* rewritten to "admin" under the old signature, or the same payload signed with a
\* key of the caller's own. Requests carry an issued token, or an ordinary user's
\* token rewritten.
Tampered(tok) ==
    [tok EXCEPT !.payload = [tok.payload EXCEPT !.role = "admin"]]

SelfSigned(tok) ==
    [tok EXCEPT !.sig = Sign(tok.payload, "caller key")]

Issued == {i.token : i \in tokens}

Forged == {Tampered(tok) : tok \in Issued} \cup {SelfSigned(tok) : tok \in Issued}

Presentable == Issued \cup {Tampered(tok) : tok \in {i \in Issued : i.payload.role = "user"}}

-----------------------------------------------------------------------------
(* The store *)

first(rows) == IF rows = {} THEN NoRow ELSE CHOOSE r \in rows : TRUE

Answer(op, claim, arg, status, detail, body) ==
    [op |-> op, claim |-> claim, arg |-> arg, status |-> status, detail |-> detail,
     body |-> body]

Answer401(op, auth, arg) == Answer(op, NoClaim, arg, 401, auth.detail, None)

\* rollback leaving the session's pending changes in the table
rollback_keeps_pending(committed, pending) == pending

\* db.rollback() in an except clause: the rows the failed request assigned, added or
\* deleted in its session are dropped and the table is as it was committed
rollback(committed, pending) == committed

\* OwnedBy with the filter left out
OwnedBy_unfiltered(rows, user_id) == rows

\* .filter(Model.user_id == current_user.id) of the list handlers
OwnedBy(rows, user_id) == {r \in rows : r.user_id = user_id}

\* Denied with the owner test left out: every caller passes
Denied_nobody(current_user, row) == FALSE

\* Denied without the exemption of the admin role
Denied_admin_too(current_user, row) == row.user_id # current_user.id

\* Denied comparing the row's own id, not its owner's, with the caller's id
Denied_by_row_id(current_user, row) ==
    current_user.role # "admin" /\ row.id # current_user.id

\* the ownership check of the single-row handlers: not admin, and not the row's owner
Denied(current_user, row) ==
    current_user.role # "admin" /\ row.user_id # current_user.id

\* query.offset(skip).limit(limit).all() over rows the store returns in the order ord
Page(ord, skip, limit) ==
    SubSeq(ord, skip + 1, IF skip + limit < Len(ord) THEN skip + limit ELSE Len(ord))

\* the orders in which a query without ORDER BY may return the rows
Orderings(rows) ==
    {o \in [1..Cardinality(rows) -> rows] : \A i, j \in 1..Cardinality(rows) : o[i] = o[j] => i = j}

Range(s) == {s[i] : i \in 1..Len(s)}

\* skip and limit of a list request: the defaults, and a second page of one row
Pages == {[skip |-> 0, limit |-> 100], [skip |-> 1, limit |-> 1]}

-----------------------------------------------------------------------------
(* Login: src/routers/auth.py and src/main.py *)

get_user_by_email(email) == first({u \in users : u.email = email})

Usernames == {"admin@x", "u@x", "nobody@x"}
Passwords == {"pw1", "pw2"}

\* an issued token, the handler that issued it and the id, role and city of the users
\* row it was issued for (NoClaim when it was issued for no row)
Issuance(tok, by, user) ==
    [token |-> tok, by |-> by,
     user |-> IF user = NoRow THEN NoClaim
              ELSE [id |-> user.id, role |-> user.role, city |-> user.city]]

Issue(tok, by, user) ==
    /\ Cardinality(tokens \cup {Issuance(tok, by, user)}) <= MaxTokens
    /\ tokens' = tokens \cup {Issuance(tok, by, user)}

\* login_for_access_token telling an unknown email from a wrong password
login_for_access_token_telling(username, password) ==
    LET user == get_user_by_email(username)
        form == [username |-> username, password |-> password]
        op == "login_for_access_token"
    IN /\ UNCHANGED <<store, seq, now, ENV>>
       /\ IF user = NoRow
            THEN /\ resp' = Answer(op, NoClaim, form, 401, "Email inconnu", None)
                 /\ UNCHANGED tokens
          ELSE IF ~verify_password(password, user.hashed_password)
            THEN /\ resp' = Answer(op, NoClaim, form, 401, "Mot de passe incorrect", None)
                 /\ UNCHANGED tokens
          ELSE IF ~user.is_active
            THEN /\ resp' = Answer(op, NoClaim, form, 401, "Compte utilisateur inactif", None)
                 /\ UNCHANGED tokens
          ELSE LET access_token ==
                       create_access_token([sub |-> str(user.id), role |-> user.role,
                                            city |-> user.city], now)
               IN /\ Issue(access_token, op, user)
                  /\ resp' = Answer(op, NoClaim, form, 200, "", access_token)

login_for_access_token(username, password) ==
    LET user == get_user_by_email(username)
        form == [username |-> username, password |-> password]
        op == "login_for_access_token"
    IN /\ UNCHANGED <<store, seq, now, ENV>>
       /\ IF user = NoRow
            THEN /\ resp' = Answer(op, NoClaim, form, 401, "Email ou mot de passe incorrect", None)
                 /\ UNCHANGED tokens
          ELSE IF ~verify_password(password, user.hashed_password)
            THEN /\ resp' = Answer(op, NoClaim, form, 401, "Email ou mot de passe incorrect", None)
                 /\ UNCHANGED tokens
          ELSE IF ~user.is_active
            THEN /\ resp' = Answer(op, NoClaim, form, 401, "Compte utilisateur inactif", None)
                 /\ UNCHANGED tokens
          ELSE LET access_token ==
                       create_access_token([sub |-> str(user.id), role |-> user.role,
                                            city |-> user.city], now)
               IN /\ Issue(access_token, op, user)
                  /\ resp' = Answer(op, NoClaim, form, 200, "", access_token)

\* POST /token of src/main.py
main_login_for_access_token(username, password) ==
    LET user == get_user_by_email(username)
        form == [username |-> username, password |-> password]
        op == "main_login_for_access_token"
    IN /\ UNCHANGED <<store, seq, now, ENV>>
       /\ IF user = NoRow \/ ~verify_password(password, user.hashed_password)
            THEN /\ resp' = Answer(op, NoClaim, form, 401, "Incorrect email or password", None)
                 /\ UNCHANGED tokens
          ELSE LET access_token ==
                       create_access_token([sub |-> str(user.id), role |-> user.role,
                                            city |-> user.city], now)
               IN /\ Issue(access_token, op, user)
                  /\ resp' = Answer(op, NoClaim, form, 200, "", access_token)

\* POST /debug-token: user_data is the JSON body, id already in the form str() gives it
DebugIds == {str(2), <<"a", "b", "c">>}
DebugRoles == {"admin", None}

\* debug_token_creation without the test of settings.ENV
debug_token_creation_unguarded(id, role, city) ==
    LET user_data == [id |-> id, role |-> role, city |-> city]
        op == "debug_token_creation"
        access_token == create_access_token([sub |-> user_data.id, role |-> user_data.role,
                                             city |-> user_data.city], now)
    IN /\ UNCHANGED <<store, seq, now, ENV>>
       /\ Issue(access_token, op, NoRow)
       /\ resp' = Answer(op, NoClaim, user_data, 200, "", access_token)

debug_token_creation(id, role, city) ==
    LET user_data == [id |-> id, role |-> role, city |-> city]
        op == "debug_token_creation"
    IN /\ UNCHANGED <<store, seq, now, ENV>>
       /\ IF ENV = "production"
            THEN /\ resp' = Answer(op, NoClaim, user_data, 404, "Not found", None)
                 /\ UNCHANGED tokens
          ELSE LET access_token ==
                       create_access_token([sub |-> user_data.id, role |-> user_data.role,
                                            city |-> user_data.city], now)
               IN /\ Issue(access_token, op, NoRow)
                  /\ resp' = Answer(op, NoClaim, user_data, 200, "", access_token)

read_users_me(t) ==
    LET auth == get_current_user(t, now)
        op == "read_users_me"
    IN /\ UNCHANGED <<store, seq, tokens, now, ENV>>
       /\ IF auth.status # 200 THEN resp' = Answer401(op, auth, t)
          ELSE resp' = Answer(op, auth.claim, t, 200, "", auth.claim)

\* the clock moves on to a later instant
Tick ==
    /\ \E later \in Instants : later > now /\ now' = later
    /\ UNCHANGED <<store, seq, tokens, ENV, resp>>

-----------------------------------------------------------------------------
(* Users: src/routers/users.py *)

UserRow(id, email, role, hashed_password, name, city, is_active) ==
    [id |-> id, email |-> email, role |-> role, hashed_password |-> hashed_password,
     name |-> name, city |-> city, is_active |-> is_active]

\* UserHasDependents finding no dependent row: the commit of the delete goes through
UserHasDependents_none(user_id) == FALSE

\* the ORM nulls the user_id of the user's clients and prospects before the DELETE,
\* and user_id is NOT NULL: the flush raises IntegrityError
UserHasDependents(user_id) ==
    \/ \E c \in clients : c.user_id = user_id
    \/ \E p \in prospects : p.user_id = user_id

\* NotOwnAccount without the test: every caller passes
NotOwnAccount_nobody(current_user, user_id) == FALSE

\* the check of read_user and update_user: not admin, and not the caller's own row
NotOwnAccount(current_user, user_id) ==
    current_user.role # "admin" /\ current_user.id # user_id

\* UNIQUE(users.email)
EmailTaken(email, except_id) == \E u \in users : u.email = email /\ u.id # except_id

read_users(t, skip, limit) ==
    LET auth == get_current_user(t, now)
        admin == get_admin_user(auth.claim)
        op == "read_users"
    IN /\ UNCHANGED <<store, seq, tokens, now, ENV>>
       /\ IF auth.status # 200 THEN resp' = Answer401(op, auth, 0)
          ELSE IF admin.status # 200
            THEN resp' = Answer(op, auth.claim, 0, 403, "Not enough permissions", None)
          ELSE \E ord \in Orderings(users) :
                 resp' = Answer(op, admin.claim, 0, 200, "", Page(ord, skip, limit))

create_user(t, user, salt) ==
    LET auth == get_current_user(t, now)
        admin == get_admin_user(auth.claim)
        op == "create_user"
        db_user == UserRow(seq.users + 1, user.email, user.role,
                           hash_password(user.password, salt), user.name, user.city, TRUE)
    IN /\ seq.users < MaxUsers
       /\ UNCHANGED <<clients, prospects, content_items, tokens, now, ENV>>
       /\ IF auth.status # 200
            THEN resp' = Answer401(op, auth, user) /\ UNCHANGED <<users, seq>>
          ELSE IF admin.status # 200
            THEN /\ resp' = Answer(op, auth.claim, user, 403, "Not enough permissions", None)
                 /\ UNCHANGED <<users, seq>>
          ELSE IF get_user_by_email(user.email) # NoRow
            THEN /\ resp' = Answer(op, admin.claim, user, 400, "Cet email est deja enregistre", None)
                 /\ UNCHANGED <<users, seq>>
          ELSE /\ users' = users \cup {db_user}
               /\ seq' = [seq EXCEPT !.users = @ + 1]
               /\ resp' = Answer(op, admin.claim, user, 201, "", db_user)

\* read_user with the existence check before the authorization check
read_user_existence_first(t, user_id) ==
    LET auth == get_current_user(t, now)
        current_user == auth.claim
        op == "read_user"
        db_user == first({u \in users : u.id = user_id})
    IN /\ UNCHANGED <<store, seq, tokens, now, ENV>>
       /\ IF auth.status # 200 THEN resp' = Answer401(op, auth, user_id)
          ELSE IF db_user = NoRow
            THEN resp' = Answer(op, current_user, user_id, 404, "Utilisateur non trouve", None)
          ELSE IF NotOwnAccount(current_user, user_id)
            THEN resp' = Answer(op, current_user, user_id, 403,
                                "Acces non autorise a cet utilisateur", None)
          ELSE resp' = Answer(op, current_user, user_id, 200, "", db_user)
read_user(t, user_id) ==
    LET auth == get_current_user(t, now)
        current_user == auth.claim
        op == "read_user"
        db_user == first({u \in users : u.id = user_id})
    IN /\ UNCHANGED <<store, seq, tokens, now, ENV>>
       /\ IF auth.status # 200 THEN resp' = Answer401(op, auth, user_id)
          ELSE IF NotOwnAccount(current_user, user_id)
            THEN resp' = Answer(op, current_user, user_id, 403,
                                "Acces non autorise a cet utilisateur", None)
          ELSE IF db_user = NoRow
            THEN resp' = Answer(op, current_user, user_id, 404, "Utilisateur non trouve", None)
          ELSE resp' = Answer(op, current_user, user_id, 200, "", db_user)

\* user_update.model_dump(exclude_unset=True), password replaced by its hash
UserData(user_update, salt) ==
    LET keys == (DOMAIN user_update \ {"password"})
                    \cup (IF "password" \in DOMAIN user_update THEN {"hashed_password"} ELSE {})
    IN [k \in keys |-> IF k = "hashed_password"
                         THEN hash_password(user_update.password, salt)
                         ELSE user_update[k]]

\* for key, value in data.items(): setattr(row, key, value)
SetAttrs(row, data) ==
    [k \in DOMAIN row |-> IF k \in DOMAIN data THEN data[k] ELSE row[k]]

update_user(t, user_id, user_update, salt) ==
    LET auth == get_current_user(t, now)
        current_user == auth.claim
        op == "update_user"
        arg == [user_id |-> user_id, user_update |-> user_update]
        db_user == first({u \in users : u.id = user_id})
        user_data == UserData(user_update, salt)
        updated == SetAttrs(db_user, user_data)
    IN /\ UNCHANGED <<clients, prospects, content_items, seq, tokens, now, ENV>>
       /\ IF auth.status # 200 THEN resp' = Answer401(op, auth, arg) /\ UNCHANGED users
          ELSE IF NotOwnAccount(current_user, user_id)
            THEN /\ resp' = Answer(op, current_user, arg, 403,
                                   "Acces non autorise a cet utilisateur", None)
                 /\ UNCHANGED users
          ELSE IF db_user = NoRow
            THEN /\ resp' = Answer(op, current_user, arg, 404, "Utilisateur non trouve", None)
                 /\ UNCHANGED users
          \* inside try: the HTTPException(403) is an Exception, the handler's own
          \* except clause catches it, rolls back and raises the 500
          ELSE IF "role" \in DOMAIN user_data /\ current_user.role # "admin"
            THEN /\ resp' = Answer(op, current_user, arg, 500,
                                   "Erreur serveur: 403: Seul un administrateur peut modifier le role",
                                   None)
                 /\ UNCHANGED users
          \* commit: UNIQUE(users.email) raises IntegrityError, caught the same way
          ELSE IF "email" \in DOMAIN user_data /\ EmailTaken(user_data.email, user_id)
            THEN /\ resp' = Answer(op, current_user, arg, 500,
                                   "Erreur serveur: IntegrityError", None)
                 /\ users' = rollback(users, (users \ {db_user}) \cup {updated})
          ELSE /\ users' = (users \ {db_user}) \cup {updated}
               /\ resp' = Answer(op, current_user, arg, 200, "", updated)

delete_user(t, user_id) ==
    LET auth == get_current_user(t, now)
        admin == get_admin_user(auth.claim)
        op == "delete_user"
        db_user == first({u \in users : u.id = user_id})
    IN /\ UNCHANGED <<clients, prospects, content_items, seq, tokens, now, ENV>>
       /\ IF auth.status # 200 THEN resp' = Answer401(op, auth, user_id) /\ UNCHANGED users
          ELSE IF admin.status # 200
            THEN /\ resp' = Answer(op, auth.claim, user_id, 403, "Not enough permissions", None)
                 /\ UNCHANGED users
          ELSE IF db_user = NoRow
            THEN /\ resp' = Answer(op, admin.claim, user_id, 404, "Utilisateur non trouve", None)
                 /\ UNCHANGED users
          ELSE IF UserHasDependents(user_id)
            THEN /\ resp' = Answer(op, admin.claim, user_id, 500,
                                   "Erreur serveur: IntegrityError", None)
                 /\ users' = rollback(users, users \ {db_user})
          ELSE /\ users' = users \ {db_user}
               /\ resp' = Answer(op, admin.claim, user_id, 204, "", None)

-----------------------------------------------------------------------------
(* Clients: src/routers/clients.py *)

\* FOREIGN KEY(user_id) REFERENCES users(id)
UserExists(user_id) == \E u \in users : u.id = user_id

\* the ORM nulls the client_id of the client's content items before the DELETE,
\* and client_id is NOT NULL: the flush raises IntegrityError
ClientHasDependents(client_id) == \E i \in content_items : i.client_id = client_id

\* GET /clients/?skip=&limit=&city= : the handler declares skip and limit; the
\* framework drops a query parameter the handler does not declare, so city reaches
\* no query
\* ClientCreate with extra fields kept (model_config extra = "allow")
ClientCreate_extra_allowed(body) == body

\* pydantic builds the ClientCreate from the request body: fields the schema does not
\* declare are ignored
ClientCreate(body) == [k \in DOMAIN body \cap {"name"} |-> body[k]]

read_clients(t, skip, limit, city) ==
    LET auth == get_current_user(t, now)
        current_user == auth.claim
        op == "read_clients"
        arg == [skip |-> skip, limit |-> limit, city |-> city]
        rows == IF current_user.role = "admin" THEN clients
                ELSE OwnedBy(clients, current_user.id)
    IN /\ UNCHANGED <<store, seq, tokens, now, ENV>>
       /\ IF auth.status # 200 THEN resp' = Answer401(op, auth, arg)
          ELSE \E ord \in Orderings(rows) :
                 resp' = Answer(op, current_user, arg, 200, "", Page(ord, skip, limit))

create_client(t, body) ==
    LET auth == get_current_user(t, now)
        current_user == auth.claim
        op == "create_client"
        client == ClientCreate(body)
        db_client == [id |-> seq.clients + 1, user_id |-> current_user.id, name |-> client.name]
    IN /\ seq.clients < MaxClients
       /\ UNCHANGED <<users, prospects, content_items, tokens, now, ENV>>
       /\ IF auth.status # 200
            THEN resp' = Answer401(op, auth, client) /\ UNCHANGED <<clients, seq>>
          ELSE IF ~UserExists(current_user.id)
            THEN /\ resp' = Answer(op, current_user, client, 400,
                                   "Une erreur est survenue lors de la creation du client", None)
                 /\ UNCHANGED <<clients, seq>>
          ELSE /\ clients' = clients \cup {db_client}
               /\ seq' = [seq EXCEPT !.clients = @ + 1]
               /\ resp' = Answer(op, current_user, client, 201, "", db_client)

\* read_client with the ownership check before the existence check
read_client_owner_first(t, client_id) ==
    LET auth == get_current_user(t, now)
        current_user == auth.claim
        op == "read_client"
        client == first({c \in clients : c.id = client_id})
    IN /\ UNCHANGED <<store, seq, tokens, now, ENV>>
       /\ IF auth.status # 200 THEN resp' = Answer401(op, auth, client_id)
          ELSE IF current_user.role # "admin"
                    /\ ~\E c \in clients : c.id = client_id /\ c.user_id = current_user.id
            THEN resp' = Answer(op, current_user, client_id, 403,
                                "Acces non autorise a ce client", None)
          ELSE IF client = NoRow
            THEN resp' = Answer(op, current_user, client_id, 404, "Client non trouve", None)
          ELSE resp' = Answer(op, current_user, client_id, 200, "", client)

read_client(t, client_id) ==
    LET auth == get_current_user(t, now)
        current_user == auth.claim
        op == "read_client"
        client == first({c \in clients : c.id = client_id})
    IN /\ UNCHANGED <<store, seq, tokens, now, ENV>>
       /\ IF auth.status # 200 THEN resp' = Answer401(op, auth, client_id)
          ELSE IF client = NoRow
            THEN resp' = Answer(op, current_user, client_id, 404, "Client non trouve", None)
          ELSE IF Denied(current_user, client)
            THEN resp' = Answer(op, current_user, client_id, 403,
                                "Acces non autorise a ce client", None)
          ELSE resp' = Answer(op, current_user, client_id, 200, "", client)

update_client(t, client_id, body) ==
    LET auth == get_current_user(t, now)
        current_user == auth.claim
        op == "update_client"
        client_update == ClientCreate(body)
        db_client == first({c \in clients : c.id = client_id})
        updated == SetAttrs(db_client, client_update)
    IN /\ UNCHANGED <<users, prospects, content_items, seq, tokens, now, ENV>>
       /\ IF auth.status # 200
            THEN resp' = Answer401(op, auth, client_id) /\ UNCHANGED clients
          ELSE IF db_client = NoRow
            THEN /\ resp' = Answer(op, current_user, client_id, 404, "Client non trouve", None)
                 /\ UNCHANGED clients
          ELSE IF Denied(current_user, db_client)
            THEN /\ resp' = Answer(op, current_user, client_id, 403,
                                   "Acces non autorise a ce client", None)
                 /\ UNCHANGED clients
          ELSE /\ clients' = (clients \ {db_client}) \cup {updated}
               /\ resp' = Answer(op, current_user, client_id, 200, "", updated)

delete_client(t, client_id) ==
    LET auth == get_current_user(t, now)
        current_user == auth.claim
        op == "delete_client"
        db_client == first({c \in clients : c.id = client_id})
    IN /\ UNCHANGED <<users, prospects, content_items, seq, tokens, now, ENV>>
       /\ IF auth.status # 200
            THEN resp' = Answer401(op, auth, client_id) /\ UNCHANGED clients
          ELSE IF db_client = NoRow
            THEN /\ resp' = Answer(op, current_user, client_id, 404, "Client non trouve", None)
                 /\ UNCHANGED clients
          ELSE IF Denied(current_user, db_client)
            THEN /\ resp' = Answer(op, current_user, client_id, 403,
                                   "Acces non autorise a ce client", None)
                 /\ UNCHANGED clients
          ELSE IF ClientHasDependents(client_id)
            THEN /\ resp' = Answer(op, current_user, client_id, 500,
                                   "Erreur serveur: IntegrityError", None)
                 /\ clients' = rollback(clients, clients \ {db_client})
          ELSE /\ clients' = clients \ {db_client}
               /\ resp' = Answer(op, current_user, client_id, 204, "", None)

-----------------------------------------------------------------------------
(* Prospects: src/routers/prospects.py *)

ProspectCreate(body) ==
    [k \in DOMAIN body \cap {"name", "interest_level", "status"} |-> body[k]]

read_prospects(t, skip, limit) ==
    LET auth == get_current_user(t, now)
        current_user == auth.claim
        op == "read_prospects"
        arg == [skip |-> skip, limit |-> limit]
        rows == IF current_user.role = "admin" THEN prospects
                ELSE OwnedBy(prospects, current_user.id)
    IN /\ UNCHANGED <<store, seq, tokens, now, ENV>>
       /\ IF auth.status # 200 THEN resp' = Answer401(op, auth, arg)
          ELSE \E ord \in Orderings(rows) :
                 resp' = Answer(op, current_user, arg, 200, "", Page(ord, skip, limit))

create_prospect(t, body) ==
    LET auth == get_current_user(t, now)
        current_user == auth.claim
        op == "create_prospect"
        prospect == ProspectCreate(body)
        db_prospect == [id |-> seq.prospects + 1, user_id |-> current_user.id,
                        name |-> prospect.name, interest_level |-> prospect.interest_level,
                        status |-> prospect.status]
    IN /\ seq.prospects < MaxProspects
       /\ UNCHANGED <<users, clients, content_items, tokens, now, ENV>>
       /\ IF auth.status # 200
            THEN resp' = Answer401(op, auth, prospect) /\ UNCHANGED <<prospects, seq>>
          ELSE IF ~UserExists(current_user.id)
            THEN /\ resp' = Answer(op, current_user, prospect, 400,
                                   "Une erreur est survenue lors de la creation du prospect", None)
                 /\ UNCHANGED <<prospects, seq>>
          ELSE /\ prospects' = prospects \cup {db_prospect}
               /\ seq' = [seq EXCEPT !.prospects = @ + 1]
               /\ resp' = Answer(op, current_user, prospect, 201, "", db_prospect)

read_prospect(t, prospect_id) ==
    LET auth == get_current_user(t, now)
        current_user == auth.claim
        op == "read_prospect"
        prospect == first({p \in prospects : p.id = prospect_id})
    IN /\ UNCHANGED <<store, seq, tokens, now, ENV>>
       /\ IF auth.status # 200 THEN resp' = Answer401(op, auth, prospect_id)
          ELSE IF prospect = NoRow
            THEN resp' = Answer(op, current_user, prospect_id, 404, "Prospect non trouve", None)
          ELSE IF Denied(current_user, prospect)
            THEN resp' = Answer(op, current_user, prospect_id, 403,
                                "Acces non autorise a ce prospect", None)
          ELSE resp' = Answer(op, current_user, prospect_id, 200, "", prospect)

update_prospect(t, prospect_id, body) ==
    LET auth == get_current_user(t, now)
        current_user == auth.claim
        op == "update_prospect"
        prospect_update == ProspectCreate(body)
        db_prospect == first({p \in prospects : p.id = prospect_id})
        updated == SetAttrs(db_prospect, prospect_update)
    IN /\ UNCHANGED <<users, clients, content_items, seq, tokens, now, ENV>>
       /\ IF auth.status # 200
            THEN resp' = Answer401(op, auth, prospect_id) /\ UNCHANGED prospects
          ELSE IF db_prospect = NoRow
            THEN /\ resp' = Answer(op, current_user, prospect_id, 404, "Prospect non trouve", None)
                 /\ UNCHANGED prospects
          ELSE IF Denied(current_user, db_prospect)
            THEN /\ resp' = Answer(op, current_user, prospect_id, 403,
                                   "Acces non autorise a ce prospect", None)
                 /\ UNCHANGED prospects
          ELSE /\ prospects' = (prospects \ {db_prospect}) \cup {updated}
               /\ resp' = Answer(op, current_user, prospect_id, 200, "", updated)

delete_prospect(t, prospect_id) ==
    LET auth == get_current_user(t, now)
        current_user == auth.claim
        op == "delete_prospect"
        db_prospect == first({p \in prospects : p.id = prospect_id})
    IN /\ UNCHANGED <<users, clients, content_items, seq, tokens, now, ENV>>
       /\ IF auth.status # 200
            THEN resp' = Answer401(op, auth, prospect_id) /\ UNCHANGED prospects
          ELSE IF db_prospect = NoRow
            THEN /\ resp' = Answer(op, current_user, prospect_id, 404, "Prospect non trouve", None)
                 /\ UNCHANGED prospects
          ELSE IF Denied(current_user, db_prospect)
            THEN /\ resp' = Answer(op, current_user, prospect_id, 403,
                                   "Acces non autorise a ce prospect", None)
                 /\ UNCHANGED prospects
          ELSE /\ prospects' = prospects \ {db_prospect}
               /\ resp' = Answer(op, current_user, prospect_id, 204, "", None)

-----------------------------------------------------------------------------
(* Content items: src/routers/content_items.py *)

\* query.join(models.Client).filter(models.Client.user_id == user_id)
ItemsOfOwner(items, user_id) ==
    {i \in items : \E c \in clients : c.id = i.client_id /\ c.user_id = user_id}

NoFilter == 0

ContentItemCreate(body) == [k \in DOMAIN body \cap {"title"} |-> body[k]]

read_content_items(t, client_id, skip, limit) ==
    LET auth == get_current_user(t, now)
        current_user == auth.claim
        op == "read_content_items"
        arg == [client_id |-> client_id, skip |-> skip, limit |-> limit]
        query == IF client_id # NoFilter THEN {i \in content_items : i.client_id = client_id}
                 ELSE content_items
        rows == IF current_user.role # "admin" THEN ItemsOfOwner(query, current_user.id)
                ELSE query
    IN /\ UNCHANGED <<store, seq, tokens, now, ENV>>
       /\ IF auth.status # 200 THEN resp' = Answer401(op, auth, arg)
          ELSE \E ord \in Orderings(rows) :
                 resp' = Answer(op, current_user, arg, 200, "", Page(ord, skip, limit))

create_content_item(t, body, client_id) ==
    LET auth == get_current_user(t, now)
        current_user == auth.claim
        op == "create_content_item"
        content_item == ContentItemCreate(body)
        client == first({c \in clients : c.id = client_id})
        db_content_item == [id |-> seq.content_items + 1, client_id |-> client_id,
                            title |-> content_item.title]
    IN /\ seq.content_items < MaxItems
       /\ UNCHANGED <<users, clients, prospects, tokens, now, ENV>>
       /\ IF auth.status # 200
            THEN resp' = Answer401(op, auth, client_id) /\ UNCHANGED <<content_items, seq>>
          ELSE IF client = NoRow
            THEN /\ resp' = Answer(op, current_user, client_id, 404, "Client non trouve", None)
                 /\ UNCHANGED <<content_items, seq>>
          ELSE IF Denied(current_user, client)
            THEN /\ resp' = Answer(op, current_user, client_id, 403,
                                   "Acces non autorise a ce client", None)
                 /\ UNCHANGED <<content_items, seq>>
          ELSE /\ content_items' = content_items \cup {db_content_item}
               /\ seq' = [seq EXCEPT !.content_items = @ + 1]
               /\ resp' = Answer(op, current_user, client_id, 201, "", db_content_item)

\* ParentDenies comparing the parent client's id, not its owner's, with the caller's id
ParentDenies_by_client_id(current_user, client) ==
    current_user.role # "admin" /\ client # NoRow /\ client.id # current_user.id

\* client.user_id on the parent row; a missing parent (client is None) raises
\* AttributeError once the role test has let the evaluation reach it
ParentDenies(current_user, client) ==
    current_user.role # "admin" /\ client # NoRow /\ client.user_id # current_user.id

ParentMissing(current_user, client) ==
    current_user.role # "admin" /\ client = NoRow

read_content_item(t, content_item_id) ==
    LET auth == get_current_user(t, now)
        current_user == auth.claim
        op == "read_content_item"
        content_item == first({i \in content_items : i.id = content_item_id})
        client == first({c \in clients : c.id = content_item.client_id})
    IN /\ UNCHANGED <<store, seq, tokens, now, ENV>>
       /\ IF auth.status # 200 THEN resp' = Answer401(op, auth, content_item_id)
          ELSE IF content_item = NoRow
            THEN resp' = Answer(op, current_user, content_item_id, 404, "Contenu non trouve", None)
          ELSE IF ParentMissing(current_user, client)
            THEN resp' = Answer(op, current_user, content_item_id, 500,
                                "Internal Server Error", None)
          ELSE IF ParentDenies(current_user, client)
            THEN resp' = Answer(op, current_user, content_item_id, 403,
                                "Acces non autorise a ce contenu", None)
          ELSE resp' = Answer(op, current_user, content_item_id, 200, "", content_item)

update_content_item(t, content_item_id, body) ==
    LET auth == get_current_user(t, now)
        current_user == auth.claim
        op == "update_content_item"
        content_item_update == ContentItemCreate(body)
        db_content_item == first({i \in content_items : i.id = content_item_id})
        client == first({c \in clients : c.id = db_content_item.client_id})
        updated == SetAttrs(db_content_item, content_item_update)
    IN /\ UNCHANGED <<users, clients, prospects, seq, tokens, now, ENV>>
       /\ IF auth.status # 200
            THEN resp' = Answer401(op, auth, content_item_id) /\ UNCHANGED content_items
          ELSE IF db_content_item = NoRow
            THEN /\ resp' = Answer(op, current_user, content_item_id, 404,
                                   "Contenu non trouve", None)
                 /\ UNCHANGED content_items
          ELSE IF ParentMissing(current_user, client)
            THEN /\ resp' = Answer(op, current_user, content_item_id, 500,
                                   "Internal Server Error", None)
                 /\ UNCHANGED content_items
          ELSE IF ParentDenies(current_user, client)
            THEN /\ resp' = Answer(op, current_user, content_item_id, 403,
                                   "Acces non autorise a ce contenu", None)
                 /\ UNCHANGED content_items
          ELSE /\ content_items' = (content_items \ {db_content_item}) \cup {updated}
               /\ resp' = Answer(op, current_user, content_item_id, 200, "", updated)

delete_content_item(t, content_item_id) ==
    LET auth == get_current_user(t, now)
        current_user == auth.claim
        op == "delete_content_item"
        db_content_item == first({i \in content_items : i.id = content_item_id})
        client == first({c \in clients : c.id = db_content_item.client_id})
    IN /\ UNCHANGED <<users, clients, prospects, seq, tokens, now, ENV>>
       /\ IF auth.status # 200
            THEN resp' = Answer401(op, auth, content_item_id) /\ UNCHANGED content_items
          ELSE IF db_content_item = NoRow
            THEN /\ resp' = Answer(op, current_user, content_item_id, 404,
                                   "Contenu non trouve", None)
                 /\ UNCHANGED content_items
          ELSE IF ParentMissing(current_user, client)
            THEN /\ resp' = Answer(op, current_user, content_item_id, 500,
                                   "Internal Server Error", None)
                 /\ UNCHANGED content_items
          ELSE IF ParentDenies(current_user, client)
            THEN /\ resp' = Answer(op, current_user, content_item_id, 403,
                                   "Acces non autorise a ce contenu", None)
                 /\ UNCHANGED content_items
          ELSE /\ content_items' = content_items \ {db_content_item}
               /\ resp' = Answer(op, current_user, content_item_id, 204, "", None)

-----------------------------------------------------------------------------
(* Recommended prospects: src/routers/prospects.py *)

\* a null next_follow_up_date (the column is nullable); the dates are the days 1, 2, ...
NoDate == 0

\* order_by(models.Prospect.created_at.desc()): the orders in which the query may
\* return the rows
CreatedAtDesc(rows) ==
    {o \in Orderings(rows) :
        \A i, j \in 1..Len(o) : i < j => o[i].created_at >= o[j].created_at}

\* order_by(models.Prospect.next_follow_up_date): ascending, and PostgreSQL puts the
\* rows without a date last
NextFollowUpDateAsc(rows) ==
    {o \in Orderings(rows) :
        \A i, j \in 1..Len(o) :
            i < j => \/ o[j].next_follow_up_date = NoDate
                     \/ /\ o[i].next_follow_up_date # NoDate
                        /\ o[i].next_follow_up_date <= o[j].next_follow_up_date}

\* get_recommended_prospects with the second query not leaving out the rows the
\* first one returned
get_recommended_prospects_refilled(t, limit) ==
    LET auth == get_current_user(t, now)
        current_user == auth.claim
        op == "get_recommended_prospects"
        visible == IF current_user.role # "admin" THEN OwnedBy(prospects, current_user.id)
                   ELSE prospects
        query == {p \in visible : p.status \in {"new", "contacted"}}
        high == {p \in query : p.interest_level = "high"}
    IN /\ UNCHANGED <<store, seq, tokens, now, ENV>>
       /\ IF auth.status # 200 THEN resp' = Answer401(op, auth, limit)
          ELSE IF limit < 0
            THEN resp' = Answer(op, current_user, limit, 500, "Internal Server Error", None)
          ELSE \E ho \in CreatedAtDesc(high) :
                 LET high_interest_prospects == Page(ho, 0, limit)
                     remaining_needed == limit - Len(high_interest_prospects)
                 IN IF Len(high_interest_prospects) < limit
                      THEN \E uo \in NextFollowUpDateAsc(query) :
                             resp' = Answer(op, current_user, limit, 200, "",
                                            high_interest_prospects
                                                \o Page(uo, 0, remaining_needed))
                    ELSE resp' = Answer(op, current_user, limit, 200, "",
                                        high_interest_prospects)

\* GET /prospects/recommended: the caller's prospects (every prospect for admin) with
\* status "new" or "contacted"; first the "high" ones, newest first, at most limit; then,
\* when these are fewer than limit, the rows not yet taken by next_follow_up_date.
\* limit is an int without validation: PostgreSQL refuses a negative LIMIT and the
\* handler has no except clause. The route is declared after GET /{prospect_id}; the
\* handler is modelled as the function it is.
get_recommended_prospects(t, limit) ==
    LET auth == get_current_user(t, now)
        current_user == auth.claim
        op == "get_recommended_prospects"
        visible == IF current_user.role # "admin" THEN OwnedBy(prospects, current_user.id)
                   ELSE prospects
        query == {p \in visible : p.status \in {"new", "contacted"}}
        high == {p \in query : p.interest_level = "high"}
    IN /\ UNCHANGED <<store, seq, tokens, now, ENV>>
       /\ IF auth.status # 200 THEN resp' = Answer401(op, auth, limit)
          ELSE IF limit < 0
            THEN resp' = Answer(op, current_user, limit, 500, "Internal Server Error", None)
          ELSE \E ho \in CreatedAtDesc(high) :
                 LET high_interest_prospects == Page(ho, 0, limit)
                     existing_ids == {p.id : p \in Range(high_interest_prospects)}
                     remaining_needed == limit - Len(high_interest_prospects)
                 IN IF Len(high_interest_prospects) < limit
                      THEN \E uo \in NextFollowUpDateAsc(
                                         {p \in query : p.id \notin existing_ids}) :
                             resp' = Answer(op, current_user, limit, 200, "",
                                            high_interest_prospects
                                                \o Page(uo, 0, remaining_needed))
                    ELSE resp' = Answer(op, current_user, limit, 200, "",
                                        high_interest_prospects)

-----------------------------------------------------------------------------
(* main.py: the client list of the application object *)

\* list_clients treating every role other than admin as it treats franchise
list_clients_any_role(t) ==
    LET auth == get_current_user(t, now)
        current_user == auth.claim
        op == "list_clients"
        rows == IF current_user.role = "admin" THEN clients
                ELSE OwnedBy(clients, current_user.id)
    IN /\ UNCHANGED <<store, seq, tokens, now, ENV>>
       /\ IF auth.status # 200 THEN resp' = Answer401(op, auth, None)
          ELSE \E ord \in Orderings(rows) :
                 resp' = Answer(op, current_user, None, 200, "", ord)

\* GET /clients/ of main.py: every row for admin, the caller's rows for franchise,
\* 403 for any other role; .all() without offset or limit
list_clients(t) ==
    LET auth == get_current_user(t, now)
        current_user == auth.claim
        op == "list_clients"
        rows == IF current_user.role = "admin" THEN clients
                ELSE OwnedBy(clients, current_user.id)
    IN /\ UNCHANGED <<store, seq, tokens, now, ENV>>
       /\ IF auth.status # 200 THEN resp' = Answer401(op, auth, None)
          ELSE IF current_user.role \notin {"admin", "franchise"}
            THEN resp' = Answer(op, current_user, None, 403, "Not enough permissions", None)
          ELSE \E ord \in Orderings(rows) :
                 resp' = Answer(op, current_user, None, 200, "", ord)

-----------------------------------------------------------------------------
(* Seeds: the accounts a deployment starts with, and their logins at time 0 *)

AdminSeed == UserRow(1, "admin@x", "admin", hash_password("pw1", "s1"), "n1", "Paris", TRUE)
UserSeed == UserRow(2, "u@x", "user", hash_password("pw1", "s1"), "n1", "Paris", TRUE)
FranchiseSeed == UserRow(3, "v@x", "franchise", hash_password("pw2", "s1"), "n1", "Lyon", TRUE)

\* the token login_for_access_token hands the user at time 0
LoginAtZero(u) ==
    Issuance(create_access_token([sub |-> str(u.id), role |-> u.role, city |-> u.city], 0),
             "login_for_access_token", u)

NoRequest == Answer("none", NoClaim, 0, 0, "", None)

UserIds == 1..MaxUsers

-----------------------------------------------------------------------------
(* The user service: the administrator and one ordinary user exist and have *)
(* logged in; they work on the users table.                                 *)

InitUsers ==
    /\ users = {AdminSeed, UserSeed}
    /\ clients = {}
    /\ prospects = {}
    /\ content_items = {}
    /\ seq = [users |-> 2, clients |-> 0, prospects |-> 0, content_items |-> 0]
    /\ tokens = {LoginAtZero(AdminSeed), LoginAtZero(UserSeed)}
    /\ now = 0
    /\ ENV = "production"
    /\ resp = NoRequest

NewUsers ==
    {[email |-> e, password |-> "pw1", role |-> "user", name |-> "n1", city |-> "Paris"] :
        e \in {"admin@x", "w@x"}}

\* request bodies of PUT /users/{id}: one field at a time, and every field at once
UserUpdates ==
    {[role |-> "admin"], [role |-> "user"], [is_active |-> FALSE], [is_active |-> TRUE],
     [email |-> "new@x", password |-> "pw2", role |-> "admin", name |-> "n2",
      city |-> "Lyon", is_active |-> FALSE]}

NextUsers ==
    \/ \E t \in Presentable, pg \in Pages : read_users(t, pg.skip, pg.limit)
    \/ \E t \in Presentable, u \in NewUsers, s \in Salts : create_user(t, u, s)
    \/ \E t \in Presentable, id \in UserIds : read_user(t, id)
    \/ \E t \in Presentable, id \in UserIds, b \in UserUpdates, s \in Salts :
          update_user(t, id, b, s)
    \/ \E t \in Presentable, id \in UserIds : delete_user(t, id)

SpecUsers == InitUsers /\ [][NextUsers]_vars

-----------------------------------------------------------------------------
(* The token service: the administrator has logged in; callers log in, the  *)
(* clock moves, accounts are changed and deleted while tokens are in use.   *)

InitTokens ==
    /\ users = {AdminSeed, UserSeed}
    /\ clients = {}
    /\ prospects = {}
    /\ content_items = {}
    /\ seq = [users |-> 2, clients |-> 0, prospects |-> 0, content_items |-> 0]
    /\ tokens = {LoginAtZero(AdminSeed)}
    /\ now = 0
    /\ ENV \in {"production", "development"}
    /\ resp = NoRequest

\* the account changes made while tokens are in use: role, city and active flag at once
AccountChanges == {[role |-> "franchise", city |-> "Lyon", is_active |-> FALSE]}

NextTokens ==
    \/ \E u \in Usernames, p \in Passwords : login_for_access_token(u, p)
    \/ \E u \in Usernames, p \in Passwords : main_login_for_access_token(u, p)
    \/ \E id \in DebugIds, r \in DebugRoles : debug_token_creation(id, r, "Paris")
    \/ Tick
    \/ \E t \in Presentable : read_users_me(t)
    \/ \E t \in Presentable, id \in UserIds, b \in AccountChanges, s \in Salts :
          update_user(t, id, b, s)
    \/ \E t \in Presentable, id \in UserIds : delete_user(t, id)

SpecTokens == InitTokens /\ [][NextTokens]_vars

-----------------------------------------------------------------------------
(* The access guard on its own: one token made by create_access_token at    *)
(* time 0 from any data dict; callers present it, rewritten or re-signed,   *)
(* while the clock moves.                                                   *)

Subjects == {str(2), <<"a", "b", "c">>}

\* the dicts handed to create_access_token: with and without "sub", role and city
\* a string or null
DataInputs ==
    {[sub |-> s, role |-> r, city |-> c] :
        s \in Subjects, r \in {"user", None}, c \in {"Paris", None}}
    \cup {[role |-> r, city |-> c] : r \in {"user", None}, c \in {"Paris", None}}

InitVerify ==
    /\ users = {}
    /\ clients = {}
    /\ prospects = {}
    /\ content_items = {}
    /\ seq = [users |-> 0, clients |-> 0, prospects |-> 0, content_items |-> 0]
    /\ \E d \in DataInputs :
          tokens = {Issuance(create_access_token(d, 0), "create_access_token", NoRow)}
    /\ now = 0
    /\ ENV = "production"
    /\ resp = NoRequest

NextVerify ==
    \/ Tick
    \/ \E t \in Issued \cup Forged : read_users_me(t)

SpecVerify == InitVerify /\ [][NextVerify]_vars

-----------------------------------------------------------------------------
(* The resource service: an administrator and two ordinary users exist and *)
(* have logged in; they work on clients, prospects and content items.      *)

Accounts == {AdminSeed, UserSeed, FranchiseSeed}

InitResources ==
    /\ users = Accounts
    /\ clients = {}
    /\ prospects = {}
    /\ content_items = {}
    /\ seq = [users |-> Cardinality(Accounts), clients |-> 0, prospects |-> 0,
              content_items |-> 0]
    /\ tokens = {LoginAtZero(u) : u \in Accounts}
    /\ now = 0
    /\ ENV = "production"
    /\ resp = NoRequest

ClientIds == 1..MaxClients
ProspectIds == 1..MaxProspects
ItemIds == 1..MaxItems

\* request bodies as sent: some name a field the schema does not declare
ClientBodies == {[name |-> "c1"], [name |-> "c2", user_id |-> 1]}
ProspectBodies ==
    {[name |-> "p1", interest_level |-> "high", status |-> "new_inquiry", user_id |-> 1]}
ItemBodies == {[title |-> "t1", client_id |-> 2]}

\* the city query parameter of GET /clients/: left out, or a city
Cities == {None, "Lyon"}

NextResources ==
    \/ \E t \in Issued, pg \in Pages, c \in Cities : read_clients(t, pg.skip, pg.limit, c)
    \/ \E t \in Issued, b \in ClientBodies : create_client(t, b)
    \/ \E t \in Issued, id \in ClientIds : read_client(t, id)
    \/ \E t \in Issued, id \in ClientIds, b \in ClientBodies : update_client(t, id, b)
    \/ \E t \in Issued, id \in ClientIds : delete_client(t, id)
    \/ \E t \in Issued, pg \in Pages : read_prospects(t, pg.skip, pg.limit)
    \/ \E t \in Issued, b \in ProspectBodies : create_prospect(t, b)
    \/ \E t \in Issued, id \in ProspectIds : read_prospect(t, id)
    \/ \E t \in Issued, id \in ProspectIds, b \in ProspectBodies : update_prospect(t, id, b)
    \/ \E t \in Issued, id \in ProspectIds : delete_prospect(t, id)
    \/ \E t \in Issued, c \in {NoFilter} \cup ClientIds, pg \in Pages :
          read_content_items(t, c, pg.skip, pg.limit)
    \/ \E t \in Issued, b \in ItemBodies, c \in ClientIds : create_content_item(t, b, c)
    \/ \E t \in Issued, id \in ItemIds : read_content_item(t, id)
    \/ \E t \in Issued, id \in ItemIds, b \in ItemBodies : update_content_item(t, id, b)
    \/ \E t \in Issued, id \in ItemIds : delete_content_item(t, id)

SpecResources == InitResources /\ [][NextResources]_vars

-----------------------------------------------------------------------------
(* The application object next to the clients router: the administrator, an *)
(* ordinary user and a franchise have logged in; clients are created and    *)
(* deleted through the router and listed through both GET /clients/.        *)

NextMain ==
    \/ \E t \in Issued : list_clients(t)
    \/ \E t \in Issued, pg \in Pages : read_clients(t, pg.skip, pg.limit, None)
    \/ \E t \in Issued, b \in ClientBodies : create_client(t, b)
    \/ \E t \in Issued, id \in ClientIds : delete_client(t, id)

SpecMain == InitResources /\ [][NextMain]_vars

-----------------------------------------------------------------------------
(* The store under deletion: the three accounts have logged in; clients,    *)
(* prospects and content items are created, and users, clients, prospects   *)
(* and content items are deleted while tokens of deleted users stay valid.  *)

NextIntegrity ==
    \/ \E t \in Issued, b \in ClientBodies : create_client(t, b)
    \/ \E t \in Issued, b \in ProspectBodies : create_prospect(t, b)
    \/ \E t \in Issued, b \in ItemBodies, c \in ClientIds : create_content_item(t, b, c)
    \/ \E t \in Issued, id \in UserIds : delete_user(t, id)
    \/ \E t \in Issued, id \in ClientIds : delete_client(t, id)
    \/ \E t \in Issued, id \in ProspectIds : delete_prospect(t, id)
    \/ \E t \in Issued, id \in ItemIds : read_content_item(t, id)
    \/ \E t \in Issued, id \in ItemIds, b \in ItemBodies : update_content_item(t, id, b)
    \/ \E t \in Issued, id \in ItemIds : delete_content_item(t, id)

SpecIntegrity == InitResources /\ [][NextIntegrity]_vars

-----------------------------------------------------------------------------
(* The recommendation query: the three accounts have logged in, the         *)
(* prospects table holds rows as models.Prospect admits them (status and    *)
(* interest_level are free strings, next_follow_up_date may be null), and   *)
(* callers ask for their recommended prospects.                             *)

MaxSeeded == 3

\* the owner, interest_level and status of a stored prospect
SeedFields ==
    [user_id : {UserSeed.id, FranchiseSeed.id}, interest_level : {"high", "low"},
     status : {"new", "contacted", "new_inquiry"}]

\* the row with the serial id: created_at follows the order of the ids, the rows with
\* an odd id are due on day 1 and the others have no next_follow_up_date
SeededProspect(id, f) ==
    [id |-> id, user_id |-> f.user_id, name |-> "p1", interest_level |-> f.interest_level,
     status |-> f.status, next_follow_up_date |-> IF id % 2 = 1 THEN 1 ELSE NoDate,
     created_at |-> id]

InitRecommended ==
    /\ users = Accounts
    /\ clients = {}
    /\ \E f \in [1..MaxSeeded -> SeedFields] :
          prospects = {SeededProspect(i, f[i]) : i \in 1..MaxSeeded}
    /\ content_items = {}
    /\ seq = [users |-> Cardinality(Accounts), clients |-> 0, prospects |-> MaxSeeded,
              content_items |-> 0]
    /\ tokens = {LoginAtZero(u) : u \in Accounts}
    /\ now = 0
    /\ ENV = "production"
    /\ resp = NoRequest

\* the limit query parameter: the default 3, smaller ones, none and a negative one
Limits == {-1, 0, 1, 2, 3}

NextRecommended ==
    \E t \in Issued, limit \in Limits : get_recommended_prospects(t, limit)

SpecRecommended == InitRecommended /\ [][NextRecommended]_vars

-----------------------------------------------------------------------------
(* Properties of the resource service *)

IsListOf(op) == op \in {"read_clients", "read_prospects"}

RowOps == {"read_client", "update_client", "delete_client",
           "read_prospect", "update_prospect", "delete_prospect"}

\* the table a single-row handler works on
TableOf(op) ==
    IF op \in {"read_client", "update_client", "delete_client"} THEN clients ELSE prospects

RowOf(op, id) == first({r \in TableOf(op) : r.id = id})

Succeeded(r) == r.status \in {200, 201, 204}

\* C1: read_clients and read_prospects answered to a non-admin claim hold only rows
\* whose user_id is the claim's id, whatever the page asked for.
C1_ListsHoldOnlyOwnRows ==
    (IsListOf(resp.op) /\ resp.status = 200 /\ resp.claim.role # "admin")
        => \A i \in 1..Len(resp.body) : resp.body[i].user_id = resp.claim.id

\* C1 witness: a non-admin got a non-empty client list while another user's client
\* is in the table.
C1_Witness ==
    /\ resp.op = "read_clients" /\ resp.status = 200 /\ resp.claim.role # "admin"
    /\ Len(resp.body) > 0
    /\ \E c \in clients : c.user_id # resp.claim.id

\* the request answered in this step is a single-row request on an existing row
C2_OnExistingRow == resp'.op \in RowOps /\ resp'.status # 401 /\ RowOf(resp'.op, resp'.arg) # NoRow

\* a non-admin's request on another user's existing row is answered 403, no row changed
C2_ForeignDenied ==
    (/\ C2_OnExistingRow
     /\ resp'.claim.role # "admin"
     /\ RowOf(resp'.op, resp'.arg).user_id # resp'.claim.id)
        => resp'.status = 403 /\ store' = store

\* C2 as stated: on an existing Client or Prospect of user A, read, update and delete
\* by a non-admin B are answered 403 and change no row, and by an admin succeed.
C2_AsStated ==
    [][/\ C2_ForeignDenied
       /\ (C2_OnExistingRow /\ resp'.claim.role = "admin") => Succeeded(resp')]_vars

\* C2 amended: the same, except that delete_client on a Client that still has Content
\* Items is answered 500, also to an admin, and changes no row.
C2_ForeignDeniedAdminNotRefused ==
    [][/\ C2_ForeignDenied
       /\ (C2_OnExistingRow /\ resp'.claim.role = "admin")
            => IF resp'.op = "delete_client" /\ ClientHasDependents(resp'.arg)
                 THEN resp'.status = 500 /\ store' = store
                 ELSE Succeeded(resp')]_vars

\* C2 witness: a non-admin's update of another user's client, asking for another name,
\* was answered 403.
C2_Witness ==
    /\ resp.op = "update_client" /\ resp.status = 403 /\ resp.claim.role # "admin"
    /\ \E c \in clients : c.id = resp.arg /\ c.user_id # resp.claim.id

ItemOps == {"read_content_item", "update_content_item", "delete_content_item"}

ParentOf(item) == first({c \in clients : c.id = item.client_id})

\* C3: a non-admin's read_content_items holds only items whose parent Client is the
\* caller's, and read, update and delete of an existing item by a non-admin are
\* answered 403 exactly when the parent Client's user_id is not the caller's id.
C3_ItemsFollowParentOwner ==
    [][/\ (resp'.op = "read_content_items" /\ resp'.status = 200 /\ resp'.claim.role # "admin")
            => \A i \in 1..Len(resp'.body) :
                  /\ ParentOf(resp'.body[i]) # NoRow
                  /\ ParentOf(resp'.body[i]).user_id = resp'.claim.id
       /\ \A item \in content_items :
            (resp'.op \in ItemOps /\ resp'.status # 401 /\ resp'.arg = item.id
                /\ resp'.claim.role # "admin")
              => /\ ParentOf(item) # NoRow
                 /\ (resp'.status = 403) <=> (ParentOf(item).user_id # resp'.claim.id)]_vars

\* C3 witness: a non-admin's update of an item under another user's client was
\* answered 403.
C3_Witness ==
    /\ resp.op = "update_content_item" /\ resp.status = 403 /\ resp.claim.role # "admin"
    /\ \E i \in content_items : i.id = resp.arg /\ ParentOf(i).user_id # resp.claim.id

\* C4: create_content_item by a non-admin under an existing Client of another user is
\* answered 403 and the content items are the same after the request as before.
C4_ForeignCreateWritesNothing ==
    [][\A c \in clients :
          (resp'.op = "create_content_item" /\ resp'.status # 401 /\ resp'.arg = c.id
              /\ resp'.claim.role # "admin" /\ c.user_id # resp'.claim.id)
            => resp'.status = 403 /\ content_items' = content_items]_vars

\* C4 witness: such a request was answered 403 while the other user's client exists.
C4_Witness ==
    /\ resp.op = "create_content_item" /\ resp.status = 403
    /\ \E c \in clients : c.id = resp.arg /\ c.user_id # resp.claim.id

\* the row a single-row request names, in the state before the request
C15_Row ==
    first({r \in (IF resp'.op \in ItemOps THEN content_items ELSE TableOf(resp'.op)) :
             r.id = resp'.arg})

\* the user_id the ownership rule looks at: the row's, or its parent client's
C15_Owner(row) ==
    IF resp'.op \in ItemOps THEN ParentOf(row).user_id ELSE row.user_id

\* C15: read, update and delete of a Client, Prospect or Content Item by an
\* authenticated caller are answered 404 exactly when no row has the id, admin or not,
\* and 403 only when the row exists and the caller is neither admin nor its owner.
C15_ExistenceBeforeOwnership ==
    [][(resp'.op \in RowOps \cup ItemOps /\ resp'.status # 401)
          => /\ (resp'.status = 404) <=> (C15_Row = NoRow)
             /\ (resp'.status = 403)
                  => /\ C15_Row # NoRow
                     /\ resp'.claim.role # "admin"
                     /\ C15_Owner(C15_Row) # resp'.claim.id]_vars

\* C15 witness: a non-admin asked for a client id that has no row, while a client of
\* another user exists, and was answered 404.
C15_Witness ==
    /\ resp.op = "read_client" /\ resp.status = 404 /\ resp.claim.role # "admin"
    /\ ~\E c \in clients : c.id = resp.arg
    /\ \E c \in clients : c.user_id # resp.claim.id

AllListOps == {"read_clients", "read_prospects", "read_content_items"}

\* the rows a list request selects before the ownership rule
C16_Selected ==
    IF resp'.op = "read_clients" THEN clients
    ELSE IF resp'.op = "read_prospects" THEN prospects
    ELSE IF resp'.arg.client_id = NoFilter THEN content_items
    ELSE {i \in content_items : i.client_id = resp'.arg.client_id}

\* how many rows the page skip, limit holds of n rows
PageLen(n, skip, limit) ==
    LET rest == IF n > skip THEN n - skip ELSE 0
    IN IF rest < limit THEN rest ELSE limit

\* C16: with an admin claim the three lists return the page of all selected rows,
\* whoever owns them, and read, update and delete of a Client, Prospect or Content
\* Item are never answered 403.
C16_AdminUnrestricted ==
    [][resp'.claim.role = "admin"
          => /\ (resp'.op \in AllListOps /\ resp'.status = 200)
                  => /\ Range(resp'.body) \subseteq C16_Selected
                     /\ Cardinality(Range(resp'.body)) = Len(resp'.body)
                     /\ Len(resp'.body) = PageLen(Cardinality(C16_Selected),
                                                   resp'.arg.skip, resp'.arg.limit)
             /\ resp'.op \in RowOps \cup ItemOps => resp'.status # 403]_vars

\* C16 witness: an admin's client list holds the clients of two other users.
C16_Witness ==
    /\ resp.op = "read_clients" /\ resp.status = 200 /\ resp.claim.role = "admin"
    /\ \E i, j \in 1..Len(resp.body) :
          /\ resp.body[i].user_id # resp.body[j].user_id
          /\ resp.body[i].user_id # resp.claim.id
          /\ resp.body[j].user_id # resp.claim.id

\* the rows of a table that are new after the step, and the pairs that are the same row
Created(before, after) == {r \in after : ~\E q \in before : q.id = r.id}

\* C17: a Client or Prospect gets the user_id of the claim that creates it and a
\* Content Item the client_id it is created with, and no request changes the user_id
\* or the client_id of an existing row.
C17_OwnerFixedAtCreation ==
    [][/\ \A c \in Created(clients, clients') :
            resp'.op = "create_client" /\ c.user_id = resp'.claim.id
       /\ \A q \in Created(prospects, prospects') :
            resp'.op = "create_prospect" /\ q.user_id = resp'.claim.id
       /\ \A i \in Created(content_items, content_items') :
            resp'.op = "create_content_item" /\ i.client_id = resp'.arg
       /\ \A c \in clients : \A d \in clients' : c.id = d.id => d.user_id = c.user_id
       /\ \A q \in prospects : \A d \in prospects' : q.id = d.id => d.user_id = q.user_id
       /\ \A i \in content_items : \A d \in content_items' :
            i.id = d.id => d.client_id = i.client_id]_vars

\* C17 witness: an admin's update of another user's client went through, with the
\* body that names a user_id, and the client is still that user's.
C17_Witness ==
    /\ resp.op = "update_client" /\ resp.status = 200 /\ resp.claim.role = "admin"
    /\ resp.body.name = "c2" /\ resp.body.user_id = 2
    /\ resp.body \in clients

\* the city of the user who owns a client
OwnerCity(c) == first({u \in users : u.id = c.user_id}).city

\* C20 as stated: an admin's read_clients with a city holds only clients whose owner's
\* city is that city, and without a city it holds the page of all clients.
C20_CityFilterNarrows ==
    (resp.op = "read_clients" /\ resp.status = 200 /\ resp.claim.role = "admin")
        => IF resp.arg.city # None
             THEN \A i \in 1..Len(resp.body) : OwnerCity(resp.body[i]) = resp.arg.city
             ELSE Len(resp.body) = PageLen(Cardinality(clients), resp.arg.skip, resp.arg.limit)

-----------------------------------------------------------------------------
(* Properties of the user service *)

\* C5 as stated: the role and the is_active of a users row change only in a step
\* made with an admin claim.
C5_RoleAndActiveChangeOnlyByAdmin ==
    [][\A u \in users : \A v \in users' :
          (u.id = v.id /\ (u.role # v.role \/ u.is_active # v.is_active))
            => resp'.claim.role = "admin"]_vars

\* C6 as stated: update_user by a non-admin on the caller's own row with a body that
\* sets role is answered 403 and the users table is the same after as before.
C6_OwnRoleChangeAnswered403 ==
    [][\A u \in users :
          (resp'.op = "update_user" /\ resp'.status # 401 /\ resp'.claim.role # "admin"
              /\ resp'.arg.user_id = u.id /\ resp'.claim.id = u.id
              /\ "role" \in DOMAIN resp'.arg.user_update)
            => resp'.status = 403 /\ users' = users]_vars

\* the user_id a read_user or update_user request names
TargetUser(r) == IF r.op = "read_user" THEN r.arg ELSE r.arg.user_id

\* C7: read_user and update_user with a non-admin claim succeed only on the claim's
\* own id; on any other id the answer is 403, without a row in it, and the users table
\* is the same after as before.
C7_NonAdminOnlyOwnAccount ==
    [][(resp'.op \in {"read_user", "update_user"} /\ resp'.status # 401
          /\ resp'.claim.role # "admin")
         => /\ Succeeded(resp') => TargetUser(resp') = resp'.claim.id
            /\ TargetUser(resp') # resp'.claim.id
                 => resp'.status = 403 /\ resp'.body = None /\ users' = users]_vars

\* C7 witness: a non-admin's update of an existing row that is not its own was
\* answered 403.
C7_Witness ==
    /\ resp.op = "update_user" /\ resp.status = 403 /\ resp.claim.role # "admin"
    /\ \E u \in users : u.id = resp.arg.user_id /\ u.id # resp.claim.id

AdminOps == {"read_users", "create_user", "delete_user"}

\* C8: get_admin_user hands back the very claim it was given when its role is
\* "admin" and ends with 403 otherwise; read_users, create_user and delete_user with a
\* non-admin claim are answered 403 and leave the users table as it was.
C8_AdminOnly ==
    [][/\ \A t \in Presentable :
            LET auth == get_current_user(t, now)
            IN auth.status = 200
                 => get_admin_user(auth.claim) =
                        IF auth.claim.role = "admin"
                          THEN [status |-> 200, claim |-> auth.claim]
                          ELSE [status |-> 403, claim |-> NoClaim]
       /\ (resp'.op \in AdminOps /\ resp'.status # 401 /\ resp'.claim.role # "admin")
            => resp'.status = 403 /\ users' = users
       /\ (resp'.op \in AdminOps /\ resp'.status # 401 /\ resp'.claim.role = "admin")
            => resp'.status # 403]_vars

\* C8 witness: a non-admin's delete_user of an existing user was answered 403.
C8_Witness ==
    /\ resp.op = "delete_user" /\ resp.status = 403 /\ resp.claim.role = "user"
    /\ \E u \in users : u.id = resp.arg

\* the email a create_user or update_user request asks for is held by another user
C18_EmailHeldByAnother ==
    \/ /\ resp'.op = "create_user"
       /\ \E u \in users : u.email = resp'.arg.email
    \/ /\ resp'.op = "update_user"
       /\ "email" \in DOMAIN resp'.arg.user_update
       /\ \E u \in users : /\ u.email = resp'.arg.user_update.email
                            /\ u.id # resp'.arg.user_id

\* C18 as stated: create_user and update_user asking for an email another user holds
\* are answered with a 400-class error and leave the store as it was, and no two
\* users share an email. (The requests meant are those that reach the write: not
\* refused with 401, 403 or 404, and not a non-admin's body that names role.)
C18_DuplicateEmailAnswered400 ==
    [][/\ (/\ C18_EmailHeldByAnother
           /\ resp'.status \notin {401, 403, 404}
           /\ (resp'.claim.role = "admin" \/ "role" \notin DOMAIN resp'.arg.user_update))
            => /\ resp'.status >= 400 /\ resp'.status < 500
               /\ store' = store
       /\ \A u, v \in users' : u.email = v.email => u.id = v.id]_vars

\* the write of the request of this step failed at commit
C19_CommitFailed ==
    /\ resp'.op = "update_user"
    /\ C18_EmailHeldByAnother
    /\ resp'.status \notin {401, 403, 404}
    /\ (resp'.claim.role = "admin" \/ "role" \notin DOMAIN resp'.arg.user_update)

-----------------------------------------------------------------------------
(* Properties of the token service *)

Logins == {"login_for_access_token", "main_login_for_access_token"}

\* the tokens a caller holds or can make, in the state after the step
HeldAfter ==
    {i.token : i \in tokens'} \cup {Tampered(i.token) : i \in tokens'}
        \cup {SelfSigned(i.token) : i \in tokens'}

\* every token issued in this step was issued by a login handler to a caller who
\* presented the email and the password of an existing user, and carries that user's
\* id, role and city; every token get_current_user accepts was issued by a login
OnlyLoginIssues ==
    /\ \A i \in tokens' \ tokens :
          /\ resp'.op \in Logins
          /\ \E u \in users :
                /\ u.email = resp'.arg.username
                /\ verify_password(resp'.arg.password, u.hashed_password)
                /\ i.token.payload.sub = str(u.id)
                /\ i.token.payload.role = u.role
                /\ i.token.payload.city = u.city
    /\ \A t \in HeldAfter :
          get_current_user(t, now').status = 200
            => \E i \in tokens' : i.token = t /\ i.by \in Logins

\* C9 as stated: bearer tokens are created only at login.
C9_TokensOnlyAtLogin == [][OnlyLoginIssues]_vars

\* C9 amended: with settings.ENV = "production" bearer tokens are created only at
\* login (in any other environment debug_token_creation issues them too).
C9_TokensOnlyAtLoginInProduction == [][ENV = "production" => OnlyLoginIssues]_vars

\* C9 witness: in production a login has just issued a token.
C9_Witness ==
    /\ ENV = "production" /\ resp.op \in Logins /\ resp.status = 200
    /\ \E i \in tokens : i.token = resp.body /\ i.user.id = 2

\* C10: a token a login issued is accepted, with the id, role and city of its user at
\* issuance, at every instant before its expiry, whatever has become of the user.
C10_TokenOutlivesAccount ==
    \A i \in tokens :
        (i.by \in Logins /\ now < i.token.payload.exp)
          => get_current_user(i.token, now) = [status |-> 200, detail |-> "", claim |-> i.user]

\* C10 witness: after its user was deleted, and later than its issue, a token was
\* accepted by read_users_me with the claim of the deleted user.
C10_Witness ==
    \E i \in tokens :
        /\ i.by \in Logins /\ now > 0
        /\ ~\E u \in users : u.id = i.user.id
        /\ resp.op = "read_users_me" /\ resp.status = 200 /\ resp.body = i.user

-----------------------------------------------------------------------------
(* Properties of the access guard *)

Signed(t) == t.sig = Sign(t.payload, SECRET_KEY)

\* C11 as stated: a correctly signed token is answered 401 "Token has expired" at
\* every instant greater than or equal to its embedded expiry, and no token whose
\* signature fails is answered so.
C11_ExpiredFromExpiryOn ==
    /\ \A t \in Issued :
          now >= t.payload.exp => get_current_user(t, now) = Unauthorized("Token has expired")
    /\ \A t \in Forged :
          get_current_user(t, now) = Unauthorized("Could not validate credentials")

\* the signature check fails, sub or role is missing, or sub is not an integer
Malformed(t) ==
    \/ ~Signed(t)
    \/ "sub" \notin DOMAIN t.payload
    \/ t.payload.role = None
    \/ ~IsDecimal(t.payload.sub)

\* C12 as stated: every such token is answered 401 "Could not validate credentials"
\* and no claim.
C12_MalformedNeverAccepted ==
    \A t \in Issued \cup Forged :
        Malformed(t) => get_current_user(t, now) = Unauthorized("Could not validate credentials")

\* C12 amended: every such token is answered 401 and no claim; the detail is "Could
\* not validate credentials", except that a correctly signed one past its expiry is
\* answered "Token has expired".
C12_MalformedNeverAcceptedExpiryFirst ==
    \A t \in Issued \cup Forged :
        Malformed(t) =>
            LET r == get_current_user(t, now)
            IN /\ r.status = 401 /\ r.claim = NoClaim
               /\ r.detail = IF Signed(t) /\ t.payload.exp < now
                               THEN "Token has expired"
                               ELSE "Could not validate credentials"

\* C12 witness: a correctly signed token without sub, presented before its expiry, was
\* answered 401 "Could not validate credentials".
C12_Witness ==
    /\ resp.op = "read_users_me" /\ resp.status = 401
    /\ resp.detail = "Could not validate credentials"
    /\ Signed(resp.arg) /\ "sub" \notin DOMAIN resp.arg.payload
    /\ now < resp.arg.payload.exp

\* the sub, role and city the handler of this step passed to create_access_token
C13_Passed ==
    IF resp'.op \in Logins
      THEN LET user == get_user_by_email(resp'.arg.username)
           IN [sub |-> str(user.id), role |-> user.role, city |-> user.city]
      ELSE [sub |-> resp'.arg.id, role |-> resp'.arg.role, city |-> resp'.arg.city]

\* get_current_user at the instant of issue returns the claim that was passed in
C13_ReadsBack(i) ==
    LET r == get_current_user(i.token, now')
    IN /\ r.status = 200
       /\ str(r.claim.id) = C13_Passed.sub
       /\ r.claim.role = C13_Passed.role
       /\ r.claim.city = C13_Passed.city

GenericDetail(op) ==
    IF op = "login_for_access_token" THEN "Email ou mot de passe incorrect"
    ELSE "Incorrect email or password"

\* C14 as stated: every failed login is answered 401 with the handler's one generic
\* message, whichever check failed.
C14_FailedLoginsAlike ==
    [][(resp'.op \in Logins /\ resp'.status # 200)
          => resp'.status = 401 /\ resp'.detail = GenericDetail(resp'.op)]_vars

\* C14 amended: a login failing on an unknown email or on a wrong password is answered
\* 401 with the one generic message; login_for_access_token of routers/auth.py answers
\* an inactive account whose password verified with 401 "Compte utilisateur inactif".
C14_UnknownEmailAndWrongPasswordAlike ==
    [][(resp'.op \in Logins /\ resp'.status # 200)
          => LET user == get_user_by_email(resp'.arg.username)
                 verified == user # NoRow
                               /\ verify_password(resp'.arg.password, user.hashed_password)
             IN /\ resp'.status = 401
                /\ ~verified => resp'.detail = GenericDetail(resp'.op)
                /\ verified => /\ resp'.op = "login_for_access_token"
                               /\ ~user.is_active
                               /\ resp'.detail = "Compte utilisateur inactif"]_vars

\* C14 witness: a login with the wrong password of an existing user was answered with
\* the message a login with an unknown email gets.
C14_Witness ==
    /\ resp.op = "login_for_access_token" /\ resp.status = 401
    /\ resp.detail = GenericDetail(resp.op)
    /\ \E u \in users :
          /\ u.email = resp.arg.username
          /\ ~verify_password(resp.arg.password, u.hashed_password)

-----------------------------------------------------------------------------
(* Properties of the client list of main.py *)

\* the clients whose user_id is the id of the claim the last request carried
C21_OwnClients == {c \in clients : c.user_id = resp.claim.id}

\* the last response lists exactly the caller's own clients, each once
C21_ListsOwnClients ==
    /\ resp.status = 200
    /\ Range(resp.body) = C21_OwnClients
    /\ Len(resp.body) = Cardinality(C21_OwnClients)

-----------------------------------------------------------------------------
(* Properties of the user service: authorization and existence *)

\* the last request was a read_user or update_user carrying a non-admin claim and
\* naming a user_id that is not the claim's id
C22_ForeignRequest ==
    /\ resp.op \in {"read_user", "update_user"} /\ resp.status # 401
    /\ resp.claim.role # "admin"
    /\ TargetUser(resp) # resp.claim.id

\* C22: read_user and update_user check authorization before existence: a non-admin
\* claim naming a user_id other than its own gets the one 403 response, the same
\* whether or not a user with that id is in the table; 404 is answered only to an
\* admin claim or to a caller naming its own id.
C22_AuthorizationBeforeExistence ==
    /\ C22_ForeignRequest
          => /\ resp.status = 403
             /\ resp.detail = "Acces non autorise a cet utilisateur"
             /\ resp.body = None
    /\ (resp.op \in {"read_user", "update_user"} /\ resp.status = 404)
          => (resp.claim.role = "admin" \/ TargetUser(resp) = resp.claim.id)

\* C22 witness: a non-admin's read of a user_id that is not its own and that has no
\* row was answered 403.
C22_Witness ==
    /\ C22_ForeignRequest /\ resp.op = "read_user" /\ resp.status = 403
    /\ \A u \in users : u.id # resp.arg
-----------------------------------------------------------------------------
(* Properties of the token service: inactive accounts *)

\* C23: neither login handler issues a token for a user whose is_active flag is
\* false when the login request is made, even with the right email and password.
C23_NoTokenForInactiveUser ==
    (resp.op \in Logins /\ resp.status = 200)
        => \A u \in users : u.email = resp.arg.username => u.is_active
-----------------------------------------------------------------------------
(* Properties of the store: referential integrity *)

\* every client and prospect names an existing user, every content item an existing
\* client
C24_NoOrphan ==
    /\ \A c \in clients : \E u \in users : u.id = c.user_id
    /\ \A p \in prospects : \E u \in users : u.id = p.user_id
    /\ \A i \in content_items : \E c \in clients : c.id = i.client_id

\* no read, update or delete of a content item ended on a missing parent client
C24_ParentFound ==
    resp.op \in ItemOps => ~(resp.status = 500 /\ resp.detail = "Internal Server Error")

\* the delete_user or delete_client answered in this step named a row that other rows
\* refer to
C24_WouldOrphan ==
    \/ /\ resp'.op = "delete_user"
       /\ \E u \in users : u.id = resp'.arg
       /\ \E r \in clients \cup prospects : r.user_id = resp'.arg
    \/ /\ resp'.op = "delete_client"
       /\ \E c \in clients : c.id = resp'.arg
       /\ \E i \in content_items : i.client_id = resp'.arg

\* C24: in every reachable state every client and prospect has the user_id of an
\* existing user and every content item the client_id of an existing client, so the
\* parent lookup of read, update and delete of a content item always finds a row; a
\* delete_user or delete_client that would orphan a dependent row fails and leaves
\* the store unchanged.
C24_ReferentialIntegrity ==
    /\ [](C24_NoOrphan /\ C24_ParentFound)
    /\ [][C24_WouldOrphan => (~Succeeded(resp') /\ store' = store)]_vars

\* C24 witness: an admin's delete_user of a user who still owns a client was answered
\* 500, and the user and the client are both still there.
C24_Witness ==
    /\ resp.op = "delete_user" /\ resp.status = 500
    /\ \E u \in users : u.id = resp.arg
    /\ \E c \in clients : c.user_id = resp.arg
-----------------------------------------------------------------------------
(* Properties of the recommendation query *)

\* the stored prospects with interest_level "high" the last caller's query matches
C25_HighMatches ==
    {p \in prospects :
        /\ p.status \in {"new", "contacted"}
        /\ p.interest_level = "high"
        /\ resp.claim.role # "admin" => p.user_id = resp.claim.id}

\* C25: get_recommended_prospects returns at most limit prospects, none of them
\* twice; each returned prospect has status "new" or "contacted" and, for a non-admin
\* claim, the claim's id as user_id; the prospects with interest_level "high" come
\* before the others, and others are returned only when fewer than limit prospects
\* with interest_level "high" match.
C25_RecommendedProspects ==
    (resp.op = "get_recommended_prospects" /\ resp.status = 200)
        => /\ Len(resp.body) <= resp.arg
           /\ \A i, j \in 1..Len(resp.body) : resp.body[i].id = resp.body[j].id => i = j
           /\ \A i \in 1..Len(resp.body) :
                 /\ resp.body[i] \in prospects
                 /\ resp.body[i].status \in {"new", "contacted"}
                 /\ resp.claim.role # "admin" => resp.body[i].user_id = resp.claim.id
           /\ \A i, j \in 1..Len(resp.body) :
                 (i < j /\ resp.body[j].interest_level = "high")
                     => resp.body[i].interest_level = "high"
           /\ (\E i \in 1..Len(resp.body) : resp.body[i].interest_level # "high")
                 => Cardinality(C25_HighMatches) < resp.arg

\* C25 witness: a non-admin asked for two prospects and got one with interest_level
\* "high" followed by another one, while a "high" and "new" prospect of another user
\* is in the table.
C25_Witness ==
    /\ resp.op = "get_recommended_prospects" /\ resp.status = 200
    /\ resp.claim.role # "admin" /\ resp.arg = 2 /\ Len(resp.body) = 2
    /\ resp.body[1].interest_level = "high" /\ resp.body[2].interest_level # "high"
    /\ \E p \in prospects :
          p.user_id # resp.claim.id /\ p.status = "new" /\ p.interest_level = "high"
====
